---- MODULE Spec2Model ----
(***************************************************************************)
(* A model of druid_bindings: the BindingHost widget wrapper               *)
(* (src/src/binding_host.rs), the Binding it drives (src/src/binding.rs)   *)
(* and the Property adapters underneath (src/src/property.rs).             *)
(*                                                                         *)
(* One BindingHost is modelled together with the tree that calls it: the   *)
(* tree owns the application data, keeps the queue of submitted commands   *)
(* and calls the host's Widget methods (event, lifecycle, update, layout,  *)
(* paint) one at a time.  Every Widget method is one action; the wrapped   *)
(* widget's own behaviour inside a forwarded call is an input of that      *)
(* action.                                                                 *)
(*                                                                         *)
(* Spec, SpecForward, SpecBack and SpecLens are that tree around hosts     *)
(* built with different bindings.  SpecBinding calls the methods of a      *)
(* host's Binding, a tuple included, one by one; SpecProperty calls the    *)
(* methods of the Property under a LensPropBinding one by one, and         *)
(* SpecFraction those of AxisFractionProperty with its f64 arithmetic;     *)
(* SpecAccess reaches for the bindable widget through chains of wrappers.  *)
(* SpecLive and SpecSettle are the tree with the fairness of druid's event *)
(* loop: queued commands are delivered and due updates are run.            *)
(***************************************************************************)
EXTENDS Integers, Sequences, FiniteSets, TLC

(* ---- bounds ---- *)
MaxValue == 1
MaxQueue == 2
MaxWrites == 2
MaxDepth == 3
MaxLimit == 400

Values == 0..MaxValue
\* The application data T: the bound field f and the rest of the data, g.
\* The host looks at g only through same(old_data, data), for which two
\* values of g say everything.
Others == {"g0", "g1"}
DataSet == [f : Values, g : Others]

(* ---- Option<T> ---- *)
None == <<>>
Some(c) == <<c>>
Unit == "()"

(* ---- program constants ---- *)
APPLY_BINDINGS == "druid-builtin.apply-bindings"
INIT_BINDINGS == "druid-builtin.init-bindings"
New == "New"
Init_ == "Init"
TwoWay == "TwoWay"
BindingHostState == {New, Init_, TwoWay}
\* The identifier the tree assigns to the host (ctx.widget_id()).
HostId == "host"
\* The bindings a host is built with in this model, each on a lens of one
\* data field and one attribute of the controlled widget:
\*   "Value":     a LensPropBinding over PropertyWrapper<Value, TP> whose
\*                ValueProperty reads and writes the attribute directly
\*                (AxisPositionProperty, TabIndex);
\*   "Fraction":  a LensPropBinding over PropertyWrapper<Value, TP> with
\*                AxisFractionProperty, which scales between a fraction in
\*                the data and a position of the widget;
\*   "Size":      a LensPropBinding over SizeProperty, whose append_changes
\*                always reports a change;
\*   "ReadOnly":  a LensPropBinding over ReadOnlyProperty of the "Value"
\*                Property (Property::read);
\*   "WriteOnly": a LensPropBinding over WriteOnlyProperty of the "Value"
\*                Property (Property::write);
\*   "Writing":   a LensPropBinding over PropertyWrapper<Writing, S> whose
\*                WritingProperty writes the attribute directly;
\*   "Forward":   DataToWidgetOnlyBinding of the "Value" binding (forward());
\*   "Back":      WidgetToDataOnlyBinding of the "Value" binding (back());
\*   "Lens":      a LensBinding from the data lens to a lens of the attribute.
BindingKinds == {"Value", "Size"}
RestrictedKinds == {"Forward", "Back", "ReadOnly", "WriteOnly", "Writing"}
NoBinding == "none"

VARIABLES
    state,            \* BindingHost.state
    widget_id,        \* BindingHost.widget_id : Option<WidgetId>
    pending_change,   \* BindingHost.pending_change : Option<B::Change>
    controlled,       \* the bindable widget reached through contained.bindable()
    binding,          \* BindingHost.binding (fixed at construction)
    other,            \* the binding added with .binding(other), or NoBinding
    chain,            \* BindingHost.contained: the widgets from the outermost in
    reached,          \* what bindable() and bindable_mut() returned last
    data,             \* the application data the tree passes to every call
    old_data,         \* the data the tree passed to the previous update
    queue,            \* commands submitted and not yet delivered
    update_requested, \* ctx.request_update() was called and no update ran yet
    quiet,            \* nothing but the binding changed data or attribute so far
    writes,           \* number of Property writes while quiet (saturating)
    cycle,            \* how far the phase cycle after a change of the attribute got
    last,             \* what the last Widget method call did
    loop              \* what the tree's event loop did so far (see Loop)

vars == <<state, widget_id, pending_change, controlled, binding, other, chain,
          reached, data, old_data, queue, update_requested, writes, quiet,
          cycle, last, loop>>

(***************************************************************************)
(* Data::same on the values of the model.                                  *)
(***************************************************************************)
same(a, b) == a = b

(***************************************************************************)
(* A binding in its place: its kind, the data field its lens selects, the  *)
(* attribute its Property reads and writes, and the suffix that tells its  *)
(* steps apart in the trace.  A host built with one binding has Sole; a    *)
(* host built with BindingHost::binding(other) has the tuple (Leg0, Leg1), *)
(* whose second binding is on field g and attribute attr2.                 *)
(***************************************************************************)
Sole == [kind |-> binding, field |-> "f", attr |-> "attr", suffix |-> ""]
Leg0 == [kind |-> binding, field |-> "f", attr |-> "attr", suffix |-> ".0"]
Leg1 == [kind |-> other, field |-> "g", attr |-> "attr2", suffix |-> ".1"]

\* The binding or Property that a restricting wrapper wraps.
Wrapped(b) == [b EXCEPT !.kind = "Value"]

(***************************************************************************)
(* f64.  A finite f64 that is not negative is m * 2^e with m a string of   *)
(* Significand binary digits, the first of them 1, or it is zero; two f64  *)
(* are equal when their records are.  The digits are kept one by one       *)
(* because m does not fit the integers of the checker; the multiplier and  *)
(* the divisor of an operation are natural numbers below 2^17, so that a   *)
(* limb times one of them does fit.  Every operation                       *)
(* rounds its exact result to the nearest f64, ties to the even one, as    *)
(* the hardware does.  Subnormals, infinities and NaN are out of reach of  *)
(* the values used here.                                                   *)
(***************************************************************************)
Significand == 53
Zero64 == [m |-> <<>>, e |-> 0]

\* Long arithmetic goes by limbs of Limb binary digits, numbers below Radix.
Limb == 13
Radix == 8192

RECURSIVE Bits(_)
RECURSIVE Strip(_)
RECURSIVE Times(_, _, _, _)
RECURSIVE Divide(_, _, _)
RECURSIVE Natural(_, _)

\* The binary digits of the natural number n, the most significant first.
Bits(n) == IF n = 0 THEN <<>> ELSE Append(Bits(n \div 2), n % 2)

\* The natural number with the binary digits b[1..i].
Natural(b, i) == IF i = 0 THEN 0 ELSE 2 * Natural(b, i - 1) + b[i]

\* b without its leading zeros.
Strip(b) == IF b # <<>> /\ b[1] = 0 THEN Strip(Tail(b)) ELSE b

Zeros(n) == [i \in 1..n |-> 0]

\* b + 1 for digits b that are not all 1, in as many digits.
Inc(b) ==
    LET z == CHOOSE i \in DOMAIN b :
                 b[i] = 0 /\ \A j \in (i + 1)..Len(b) : b[j] = 1
    IN  [i \in DOMAIN b |-> IF i < z THEN b[i] ELSE IF i = z THEN 1 ELSE 0]

\* The limbs of the digits b, the most significant first.
Limbs(b) ==
    LET n == (Len(b) + Limb - 1) \div Limb
        padded == Zeros(n * Limb - Len(b)) \o b
    IN  [j \in 1..n |->
            Natural(SubSeq(padded, (j - 1) * Limb + 1, j * Limb), Limb)]

\* The digits of the limbs l, Limb for each.
Digits(l) ==
    [i \in 1..(Len(l) * Limb) |->
        (l[((i - 1) \div Limb) + 1] \div 2 ^ (Limb - 1 - ((i - 1) % Limb))) % 2]

\* The limbs of l[1..i] * c + carry, for a natural number c.
Times(l, c, i, carry) ==
    IF i = 0
    THEN Limbs(Bits(carry))
    ELSE LET t == l[i] * c + carry
         IN  Append(Times(l, c, i - 1, t \div Radix), t % Radix)

\* Quotient (in i limbs) and remainder of l[1..i] by the natural number d.
Divide(l, d, i) ==
    IF i = 0
    THEN [q |-> <<>>, r |-> 0]
    ELSE LET p == Divide(l, d, i - 1)
             t == p.r * Radix + l[i]
         IN  [q |-> Append(p.q, t \div d), r |-> t % d]

\* The f64 nearest to (q + rest) * 2^x, where q is a string of digits
\* without leading zeros and rest, 0 <= rest < 1, is known to be zero or not
\* (inexact); ties go to the even significand.
Round64(q, x, inexact) ==
    IF q = <<>>
    THEN Zero64
    ELSE IF Len(q) <= Significand
    THEN [m |-> q \o Zeros(Significand - Len(q)),
          e |-> x - (Significand - Len(q))]
    ELSE LET top == SubSeq(q, 1, Significand)
             e == x + Len(q) - Significand
             guard == q[Significand + 1]
             sticky == \/ inexact
                       \/ \E i \in (Significand + 2)..Len(q) : q[i] = 1
             up == guard = 1 /\ (sticky \/ top[Significand] = 1)
         IN  IF ~up
             THEN [m |-> top, e |-> e]
             ELSE IF \A i \in 1..Significand : top[i] = 1
             THEN [m |-> <<1>> \o Zeros(Significand - 1), e |-> e + 1]
             ELSE [m |-> Inc(top), e |-> e]

\* n as f64, for a natural number n below 2^Significand.
f64_from(n) == Round64(Bits(n), 0, FALSE)

\* x * c in f64, where c is a natural number (as f64 it is exact).
f64_mul(x, c) ==
    IF x = Zero64 THEN Zero64
    ELSE LET l == Limbs(x.m)
         IN  Round64(Strip(Digits(Times(l, c, Len(l), 0))), x.e, FALSE)

\* x / d in f64, where d is a natural number above 0.  The dividend gets
\* enough digits for the quotient to have two more than a significand.
f64_div(x, d) ==
    IF x = Zero64 THEN Zero64
    ELSE LET pad == Len(Bits(d)) + 2
             l == Limbs(x.m \o Zeros(pad))
             p == Divide(l, d, Len(l))
         IN  Round64(Strip(Digits(p.q)), x.e - pad, p.r # 0)

\* x.floor() as a natural number, for x below 2^(Significand - 1).
f64_floor(x) ==
    IF x = Zero64 \/ Significand + x.e <= 0 THEN 0
    ELSE Natural(x.m, Significand + x.e)

(***************************************************************************)
(* ValueProperty / WritingProperty of a directly stored attribute.         *)
(***************************************************************************)
value_read(b, c) == c[b.attr]

value_write(b, c, value) == [c EXCEPT ![b.attr] = value]

(***************************************************************************)
(* AxisFractionProperty on a widget with HasAxisPosition: the attribute is *)
(* the position on the axis, an f64, and limit the widget's axis limit, a  *)
(* whole number; the value is the position as a fraction of the limit.     *)
(***************************************************************************)
Thousand == 1000

\* read with the fraction cut to hundredths.
axis_fraction_read_hundredths(b, c) ==
    LET limit == c.limit
        pos == c[b.attr]
    IN  f64_div(f64_from(f64_floor(f64_mul(f64_div(pos, limit), 100))), 100)

\* ((pos / limit) * 1_000.).floor() / 1_000.
axis_fraction_read(b, c) ==
    LET limit == c.limit
        pos == c[b.attr]
    IN  f64_div(f64_from(f64_floor(f64_mul(f64_div(pos, limit), Thousand))),
                Thousand)

\* controlled.set_axis_position(direction, (*value) * limit)
axis_fraction_write(b, c, value) ==
    LET limit == c.limit
    IN  [c EXCEPT ![b.attr] = f64_mul(value, limit)]

(***************************************************************************)
(* Property, dispatched on the kind of the binding.                        *)
(***************************************************************************)
RECURSIVE write_prop(_, _, _)
RECURSIVE append_changes(_, _, _, _)
RECURSIVE initialise_data(_, _, _, _)
RECURSIVE update_data_from_change(_, _, _, _, _)

\* write_prop that writes through a ReadOnlyProperty.
write_prop_read_only_writes(b, c, field_val) ==
    CASE b.kind = "Size" -> c
      [] OTHER -> value_write(b, c, field_val)

write_prop(b, c, field_val) ==
    CASE b.kind = "Value" -> value_write(b, c, field_val)
      [] b.kind = "Fraction" -> axis_fraction_write(b, c, field_val)
      [] b.kind = "Size" -> c
      [] b.kind = "ReadOnly" -> c
      [] b.kind = "WriteOnly" -> write_prop(Wrapped(b), c, field_val)
      [] b.kind = "Writing" -> value_write(b, c, field_val)

\* append_changes that detects through a WriteOnlyProperty.
append_changes_write_only_detects(b, c, field_val, change) ==
    CASE b.kind \in {"Value", "ReadOnly", "WriteOnly"} ->
            IF ~same(value_read(b, c), field_val) THEN Some(Unit) ELSE change
      [] b.kind = "Size" -> Some(Unit)
      [] b.kind = "Writing" -> change

append_changes(b, c, field_val, change) ==
    CASE b.kind = "Value" ->
            IF ~same(value_read(b, c), field_val) THEN Some(Unit) ELSE change
      [] b.kind = "Fraction" ->
            IF ~same(axis_fraction_read(b, c), field_val)
            THEN Some(Unit) ELSE change
      [] b.kind = "Size" -> Some(Unit)
      [] b.kind = "ReadOnly" -> append_changes(Wrapped(b), c, field_val, change)
      [] b.kind = "WriteOnly" -> change
      [] b.kind = "Writing" -> change

\* initialise_data that never copies the live value into the field.
initialise_data_keeps_field(b, c, ctx, field) == field

initialise_data(b, c, ctx, field) ==
    CASE b.kind = "Value" ->
            IF ~same(value_read(b, c), field) THEN value_read(b, c) ELSE field
      [] b.kind = "Fraction" ->
            LET val == axis_fraction_read(b, c)
            IN  IF ~same(val, field) THEN val ELSE field
      [] b.kind = "Size" -> field
      [] b.kind = "ReadOnly" -> initialise_data(Wrapped(b), c, ctx, field)
      [] b.kind = "WriteOnly" -> field
      [] b.kind = "Writing" -> field

update_data_from_change(b, c, ctx, field, change) ==
    CASE b.kind \in {"Value", "Fraction"} -> initialise_data(b, c, ctx, field)
      [] b.kind = "Size" -> IF field # ctx.size THEN ctx.size ELSE field
      [] b.kind = "ReadOnly" ->
            update_data_from_change(Wrapped(b), c, ctx, field, change)
      [] b.kind = "WriteOnly" -> field
      [] b.kind = "Writing" -> field

(***************************************************************************)
(* BindableAccess.  The widget a host contains is a chain of widgets, each *)
(* the single child of the one before; a widget of the chain is named by   *)
(* its place in it.                                                        *)
(***************************************************************************)
\* The widgets implemented with bindable_wrapper_body!() ...
TrivialWrappers == {"IdentityWrapper", "LensWrap", "Scope"}
\* ... and with bindable_self_body!(): those that have a child, and the rest.
SelfWithChild == {"Scroll", "ClipBox"}
SelfLeaves == {"Tabs", "Label", "RawLabel"}

\* The leader of the example: Scroll::new(..).lens(..).with_id(..).
Leader == <<"IdentityWrapper", "LensWrap", "Scroll", "Label">>

NotReached == [ref |-> None, mut |-> None]

RECURSIVE bindable(_, _)
RECURSIVE bindable_mut(_, _)

\* bindable in which Scope returns itself instead of recursing.
bindable_scope_stops(w, i) ==
    IF w[i] \in {"IdentityWrapper", "LensWrap"} THEN bindable(w, i + 1) ELSE i

\* self.bindable() of the widget at place i of the chain w.
bindable(w, i) ==
    IF w[i] \in TrivialWrappers THEN bindable(w, i + 1) ELSE i

\* self.bindable_mut() of the widget at place i of the chain w.
bindable_mut(w, i) ==
    IF w[i] \in TrivialWrappers THEN bindable_mut(w, i + 1) ELSE i

(***************************************************************************)
(* ContextRequests: the marker type a Property names as Requests, and the  *)
(* calls its notify makes on the update context.                           *)
(***************************************************************************)
Marker(tag) == [tag |-> tag, of |-> <<>>]

MarkerTuple(ms) == [tag |-> "tuple", of |-> ms]

RECURSIVE Requests(_)

Requests(b) ==
    CASE b.kind \in {"Value", "Fraction"} -> Marker("Paint")
      [] b.kind = "Size" -> Marker("()")
      [] b.kind = "ReadOnly" -> Marker("()")
      [] b.kind = "WriteOnly" -> Requests(Wrapped(b))
      [] b.kind = "Writing" -> Marker("Layout")

RECURSIVE notify(_)
RECURSIVE notify_each(_)

\* T1::notify(ctx); T2::notify(ctx); ... for the components ms of a tuple.
notify_each(ms) ==
    IF ms = <<>> THEN <<>> ELSE notify(Head(ms)) \o notify_each(Tail(ms))

notify(marker) ==
    CASE marker.tag = "()" -> <<"request_layout">>
      [] marker.tag = "Layout" -> <<"request_layout">>
      [] marker.tag = "Paint" -> <<"request_layout">>
      [] marker.tag = "AnimFrame" -> <<"request_layout">>
      [] marker.tag = "tuple" -> notify_each(marker.of)

(***************************************************************************)
(* The host during one Widget method call: its fields, the data and the    *)
(* context it was handed, the slot handed down to a binding (change), and  *)
(* the trace of what it did.                                               *)
(***************************************************************************)
Step(m, s) == [m EXCEPT !.steps = Append(@, s)]

Enter(phase, arg) ==
    [state |-> state, widget_id |-> widget_id, pending_change |-> pending_change,
     controlled |-> controlled, data |-> data, queue |-> queue,
     update_requested |-> update_requested, writes |-> writes,
     loop |-> [loop EXCEPT !.owed = "none", !.turn = 0],
     phase |-> phase, arg |-> arg, from |-> state, handled |-> FALSE,
     steps |-> <<>>, after_write |-> None, wrote_new |-> FALSE,
     drained |-> None, moved |-> FALSE, touched |-> FALSE, change |-> None,
     applied |-> None, saw_change |-> FALSE,
     args |-> arg, same_args |-> FALSE, child_size |-> None, returned |-> None]

submit_command(m, sel, target) ==
    Step([m EXCEPT !.queue = Append(@, [sel |-> sel, target |-> target])],
         "submit_command")

(***************************************************************************)
(* Binding, for one binding b that is not a tuple.  The slot the caller    *)
(* hands down is m.change.                                                 *)
(***************************************************************************)
RECURSIVE binding_apply_data_to_controlled(_, _)
RECURSIVE binding_append_change_required(_, _)
RECURSIVE binding_apply_change_to_data(_, _, _, _)

\* apply_data_to_controlled that writes through back() as through forward().
binding_apply_data_to_controlled_back_writes(b, m) ==
    CASE b.kind = "Lens" ->
            Step([m EXCEPT !.controlled[b.attr] = m.data[b.field]],
                 "request_paint")
      [] OTHER ->
            LET w == IF b.kind \in {"Forward", "Back"} THEN Wrapped(b) ELSE b
            IN  [m EXCEPT !.controlled =
                     write_prop(w, m.controlled, m.data[b.field])]

\* apply_data_to_controlled that exchanges the field and the attribute.
binding_apply_data_to_controlled_exchanges(b, m) ==
    CASE b.kind = "Forward" -> binding_apply_data_to_controlled(Wrapped(b), m)
      [] b.kind = "Back" -> m
      [] b.kind = "Lens" ->
            Step([m EXCEPT !.controlled[b.attr] = m.data[b.field],
                           !.data[b.field] = m.controlled[b.attr]],
                 "request_paint")
      [] OTHER ->
            [m EXCEPT !.controlled = write_prop(b, m.controlled, m.data[b.field]),
                      !.data[b.field] = value_read(b, m.controlled)]

binding_apply_data_to_controlled(b, m) ==
    CASE b.kind = "Forward" -> binding_apply_data_to_controlled(Wrapped(b), m)
      [] b.kind = "Back" -> m
      [] b.kind = "Lens" ->
            Step([m EXCEPT !.controlled[b.attr] = m.data[b.field]],
                 "request_paint")
      [] OTHER ->
            [m EXCEPT !.controlled = write_prop(b, m.controlled, m.data[b.field])]

\* append_change_required that detects through forward() as through back().
binding_append_change_required_forward_detects(b, m) ==
    CASE b.kind = "Lens" ->
            [m EXCEPT !.change =
                 IF same(m.controlled[b.attr], m.data[b.field])
                 THEN None ELSE Some(m.controlled[b.attr])]
      [] OTHER ->
            LET w == IF b.kind \in {"Forward", "Back"} THEN Wrapped(b) ELSE b
            IN  [m EXCEPT !.change =
                     append_changes(w, m.controlled, m.data[b.field], m.change)]

\* append_change_required in which a LensBinding only ever sets the slot.
binding_append_change_required_lens_keeps(b, m) ==
    CASE b.kind = "Forward" -> m
      [] b.kind = "Back" -> binding_append_change_required(Wrapped(b), m)
      [] b.kind = "Lens" ->
            [m EXCEPT !.change =
                 IF same(m.controlled[b.attr], m.data[b.field])
                 THEN @ ELSE Some(m.controlled[b.attr])]
      [] OTHER ->
            [m EXCEPT !.change =
                 append_changes(b, m.controlled, m.data[b.field], m.change)]

binding_append_change_required(b, m) ==
    CASE b.kind = "Forward" -> m
      [] b.kind = "Back" -> binding_append_change_required(Wrapped(b), m)
      [] b.kind = "Lens" ->
            [m EXCEPT !.change =
                 IF same(m.controlled[b.attr], m.data[b.field])
                 THEN None ELSE Some(m.controlled[b.attr])]
      [] OTHER ->
            [m EXCEPT !.change =
                 append_changes(b, m.controlled, m.data[b.field], m.change)]

\* apply_change_to_data that rebuilds the data around the bound field, the
\* other fields at their defaults.
binding_apply_change_to_data_rebuilds_data(b, m, change, ctx) ==
    LET field == CASE b.kind = "Lens" -> change
                   [] OTHER -> update_data_from_change(
                                   IF b.kind = "Back" THEN Wrapped(b) ELSE b,
                                   m.controlled, ctx, m.data[b.field], change)
    IN  IF b.kind = "Forward" THEN m
        ELSE [m EXCEPT !.data = [[f |-> 0, g |-> "g0"] EXCEPT ![b.field] = field]]

binding_apply_change_to_data(b, m, change, ctx) ==
    CASE b.kind = "Forward" -> m
      [] b.kind = "Back" -> binding_apply_change_to_data(Wrapped(b), m, change, ctx)
      [] b.kind = "Lens" -> [m EXCEPT !.data[b.field] = change]
      [] OTHER ->
            [m EXCEPT !.data[b.field] =
                 update_data_from_change(b, m.controlled, ctx,
                                         m.data[b.field], change)]

\* One call of a Binding method on b, as the trace records it.
Call(b, name, m) == Step(m, name \o b.suffix)

(***************************************************************************)
(* Binding of the host: the sole binding, or the tuple (Leg0, Leg1).       *)
(***************************************************************************)
\* apply_data_to_controlled whose tuple writes the second binding first.
apply_data_to_controlled_leg1_first(m) ==
    LET m1 == IF other = NoBinding
              THEN binding_apply_data_to_controlled(
                       Sole, Call(Sole, "apply_data_to_controlled", m))
              ELSE LET t0 == Step(m, "apply_data_to_controlled")
                       t1 == binding_apply_data_to_controlled(
                                 Leg1, Call(Leg1, "apply_data_to_controlled", t0))
                   IN  binding_apply_data_to_controlled(
                           Leg0, Call(Leg0, "apply_data_to_controlled", t1))
    IN  [m1 EXCEPT !.after_write = Some(m1.controlled.attr),
                   !.wrote_new = (m1.controlled # m.controlled),
                   !.writes = IF @ < MaxWrites THEN @ + 1 ELSE @]

apply_data_to_controlled(m) ==
    LET m1 == IF other = NoBinding
              THEN binding_apply_data_to_controlled(
                       Sole, Call(Sole, "apply_data_to_controlled", m))
              ELSE LET t0 == Step(m, "apply_data_to_controlled")
                       t1 == binding_apply_data_to_controlled(
                                 Leg0, Call(Leg0, "apply_data_to_controlled", t0))
                   IN  binding_apply_data_to_controlled(
                           Leg1, Call(Leg1, "apply_data_to_controlled", t1))
    IN  [m1 EXCEPT !.after_write = Some(m1.controlled.attr),
                   !.wrote_new = (m1.controlled # m.controlled),
                   !.writes = IF @ < MaxWrites THEN @ + 1 ELSE @]

\* append_change_required whose tuple keeps Some((None, None)) in the slot.
append_change_required_no_collapse(m) ==
    IF other = NoBinding
    THEN LET m1 == binding_append_change_required(
                       Sole, Call(Sole, "append_change_required",
                                  [m EXCEPT !.change = m.pending_change]))
         IN  [m1 EXCEPT !.pending_change = m1.change]
    ELSE LET change == IF m.pending_change = None
                       THEN <<None, None>> ELSE m.pending_change[1]
             t0 == Step(m, "append_change_required")
             t1 == binding_append_change_required(
                       Leg0, Call(Leg0, "append_change_required",
                                  [t0 EXCEPT !.change = change[1]]))
             t2 == binding_append_change_required(
                       Leg1, Call(Leg1, "append_change_required",
                                  [t1 EXCEPT !.change = change[2]]))
         IN  [t2 EXCEPT !.pending_change = Some(<<t1.change, t2.change>>)]

append_change_required(m) ==
    IF other = NoBinding
    THEN LET m1 == binding_append_change_required(
                       Sole, Call(Sole, "append_change_required",
                                  [m EXCEPT !.change = m.pending_change]))
         IN  [m1 EXCEPT !.pending_change = m1.change]
    ELSE LET change == IF m.pending_change = None
                       THEN <<None, None>> ELSE m.pending_change[1]
             t0 == Step(m, "append_change_required")
             t1 == binding_append_change_required(
                       Leg0, Call(Leg0, "append_change_required",
                                  [t0 EXCEPT !.change = change[1]]))
             t2 == binding_append_change_required(
                       Leg1, Call(Leg1, "append_change_required",
                                  [t1 EXCEPT !.change = change[2]]))
             new == <<t1.change, t2.change>>
         IN  [t2 EXCEPT !.pending_change =
                            IF new = <<None, None>> THEN None ELSE Some(new)]

\* apply_change_to_data whose tuple runs the second binding whether or not
\* it holds a change.
apply_change_to_data_both_legs(m, change, ctx) ==
    IF other = NoBinding
    THEN binding_apply_change_to_data(
             Sole, Call(Sole, "apply_change_to_data", m), change, ctx)
    ELSE LET t0 == Step(m, "apply_change_to_data")
             t1 == IF change[1] # None
                   THEN binding_apply_change_to_data(
                            Leg0, Call(Leg0, "apply_change_to_data", t0),
                            change[1][1], ctx)
                   ELSE t0
         IN  binding_apply_change_to_data(
                 Leg1, Call(Leg1, "apply_change_to_data", t1), Unit, ctx)

apply_change_to_data(m, change, ctx) ==
    IF other = NoBinding
    THEN binding_apply_change_to_data(
             Sole, Call(Sole, "apply_change_to_data", m), change, ctx)
    ELSE LET t0 == Step(m, "apply_change_to_data")
             t1 == IF change[1] # None
                   THEN binding_apply_change_to_data(
                            Leg0, Call(Leg0, "apply_change_to_data", t0),
                            change[1][1], ctx)
                   ELSE t0
         IN  IF change[2] # None
             THEN binding_apply_change_to_data(
                      Leg1, Call(Leg1, "apply_change_to_data", t1),
                      change[2][1], ctx)
             ELSE t1

(***************************************************************************)
(* BindingHost                                                             *)
(***************************************************************************)
\* apply_pending_changes that reads the slot without take(): the change stays.
apply_pending_changes_no_take(m, ctx) ==
    IF m.pending_change # None
    THEN apply_change_to_data([m EXCEPT !.drained = m.pending_change],
                              m.pending_change[1], ctx)
    ELSE m

apply_pending_changes(m, ctx) ==
    IF m.pending_change # None
    THEN LET m1 == apply_change_to_data(
                       [m EXCEPT !.pending_change = None,
                                 !.drained = m.pending_change],
                       m.pending_change[1], ctx)
         IN  [m1 EXCEPT !.applied = Some(m1.data)]
    ELSE m

\* check_for_changes2 without the test for TwoWay.
check_for_changes2_any_state(m, ctx) ==
    LET m1 == append_change_required(m)
    IN  IF m1.pending_change # None
        THEN submit_command(m1, APPLY_BINDINGS, ctx.widget_id)
        ELSE m1

\* check_for_changes2 that detects but never submits the wake-up command.
check_for_changes2_no_wake_up(m, ctx) ==
    IF m.state = TwoWay THEN append_change_required(m) ELSE m

check_for_changes2(m, ctx) ==
    IF m.state = TwoWay
    THEN LET m1 == append_change_required(m)
         IN  IF m1.pending_change # None
             THEN submit_command(m1, APPLY_BINDINGS, ctx.widget_id)
             ELSE m1
    ELSE m

\* The wrapped widget handling a forwarded call: it is handed the data as
\* they are now (saw_change: the data a drained change was applied to), may
\* change its own attributes, leaving the bindable widget as na, and, in
\* event, change the data to nd.
contained(m, args, na, nd) ==
    Step([m EXCEPT !.controlled = na, !.data = nd,
                   !.same_args = (args = m.args),
                   !.saw_change = (m.applied = Some(m.data)),
                   !.moved = (na # m.controlled),
                   !.touched = (na # m.controlled \/ nd # m.data)],
         "forward")

set_handled(m) == Step([m EXCEPT !.handled = TRUE], "set_handled")

request_update(m) == Step([m EXCEPT !.update_requested = TRUE], "request_update")

\* event that enters TwoWay itself when INIT_BINDINGS arrives.
event_enters_two_way(m, ev, ctx, na, nd) ==
    CASE m.state = New -> contained(m, ev, na, nd)
      [] m.state = Init_ ->
            IF ev = INIT_BINDINGS
            THEN request_update(set_handled([m EXCEPT !.state = TwoWay]))
            ELSE contained(m, ev, na, nd)
      [] m.state = TwoWay ->
            LET m1 == apply_pending_changes(m, ctx)
                m2 == IF ev = APPLY_BINDINGS
                      THEN set_handled(m1)
                      ELSE contained(m1, ev, na, nd)
            IN  check_for_changes2(m2, ctx)

\* event that forwards INIT_BINDINGS to the wrapped widget in Init as well.
event_forwards_init_bindings(m, ev, ctx, na, nd) ==
    CASE m.state \in {New, Init_} -> contained(m, ev, na, nd)
      [] m.state = TwoWay ->
            LET m1 == apply_pending_changes(m, ctx)
                m2 == IF ev = APPLY_BINDINGS
                      THEN set_handled(m1)
                      ELSE contained(m1, ev, na, nd)
            IN  check_for_changes2(m2, ctx)

\* event that applies again whatever detection queued, in the same call.
event_applies_until_settled(m, ev, ctx, na, nd) ==
    CASE m.state = New -> contained(m, ev, na, nd)
      [] m.state = Init_ ->
            IF ev = INIT_BINDINGS
            THEN request_update(set_handled(m))
            ELSE contained(m, ev, na, nd)
      [] m.state = TwoWay ->
            LET m1 == apply_pending_changes(m, ctx)
                m2 == IF ev = APPLY_BINDINGS
                      THEN set_handled(m1)
                      ELSE contained(m1, ev, na, nd)
                m3 == check_for_changes2(m2, ctx)
            IN  check_for_changes2(apply_pending_changes(m3, ctx), ctx)

\* event that forwards to the wrapped widget before draining the slot.
event_forwards_before_draining(m, ev, ctx, na, nd) ==
    CASE m.state = New -> contained(m, ev, na, nd)
      [] m.state = Init_ ->
            IF ev = INIT_BINDINGS
            THEN request_update(set_handled(m))
            ELSE contained(m, ev, na, nd)
      [] m.state = TwoWay ->
            LET m1 == IF ev = APPLY_BINDINGS
                      THEN set_handled(m)
                      ELSE contained(m, ev, na, nd)
                m2 == apply_pending_changes(m1, ctx)
            IN  check_for_changes2(m2, ctx)

\* event that, in TwoWay, handles APPLY_BINDINGS only when the slot is filled
\* and hands a stale one to the wrapped widget.
event_forwards_stale_apply(m, ev, ctx, na, nd) ==
    CASE m.state = New -> contained(m, ev, na, nd)
      [] m.state = Init_ ->
            IF ev = INIT_BINDINGS
            THEN request_update(set_handled(m))
            ELSE contained(m, ev, na, nd)
      [] m.state = TwoWay ->
            LET m1 == apply_pending_changes(m, ctx)
                m2 == IF ev = APPLY_BINDINGS /\ m.pending_change # None
                      THEN set_handled(m1)
                      ELSE contained(m1, ev, na, nd)
            IN  check_for_changes2(m2, ctx)

event_handles_without_update(m, ev, ctx, na, nd) ==
    CASE m.state = New -> contained(m, ev, na, nd)
      [] m.state = Init_ ->
            IF ev = INIT_BINDINGS
            THEN set_handled(m)
            ELSE contained(m, ev, na, nd)
      [] m.state = TwoWay ->
            LET m1 == apply_pending_changes(m, ctx)
                m2 == IF ev = APPLY_BINDINGS
                      THEN set_handled(m1)
                      ELSE contained(m1, ev, na, nd)
            IN  check_for_changes2(m2, ctx)

event(m, ev, ctx, na, nd) ==
    CASE m.state = New -> contained(m, ev, na, nd)
      [] m.state = Init_ ->
            IF ev = INIT_BINDINGS
            THEN request_update(set_handled(m))
            ELSE contained(m, ev, na, nd)
      [] m.state = TwoWay ->
            LET m1 == apply_pending_changes(m, ctx)
                m2 == IF ev = APPLY_BINDINGS
                      THEN set_handled(m1)
                      ELSE contained(m1, ev, na, nd)
            IN  check_for_changes2(m2, ctx)

\* lifecycle that submits the INIT_BINDINGS command twice.
lifecycle_submits_twice(m, ev, ctx, na) ==
    LET m1 == IF ev = "WidgetAdded"
              THEN submit_command(
                       submit_command(
                           [m EXCEPT !.state = Init_,
                                     !.widget_id = Some(ctx.widget_id)],
                           INIT_BINDINGS, ctx.widget_id),
                       INIT_BINDINGS, ctx.widget_id)
              ELSE m
        m2 == contained(m1, ev, na, m1.data)
    IN  check_for_changes2(m2, ctx)

lifecycle(m, ev, ctx, na) ==
    LET m1 == IF ev = "WidgetAdded"
              THEN submit_command(
                       [m EXCEPT !.state = Init_, !.widget_id = Some(ctx.widget_id)],
                       INIT_BINDINGS, ctx.widget_id)
              ELSE m
        m2 == contained(m1, ev, na, m1.data)
    IN  check_for_changes2(m2, ctx)

\* update that writes to the widget only when the data changed, also in Init.
update_without_seeding(m, old, ctx, na) ==
    LET apply_to_controlled == ~same(old, m.data)
        m1 == IF m.state = Init_ THEN [m EXCEPT !.state = TwoWay] ELSE m
        m2 == IF apply_to_controlled THEN apply_data_to_controlled(m1) ELSE m1
        m3 == contained(m2, old, na, m2.data)
    IN  check_for_changes2(m3, ctx)

\* update that re-runs apply_data_to_controlled whether or not the data changed.
update_always_applies(m, old, ctx, na) ==
    LET m1 == IF m.state = Init_ THEN [m EXCEPT !.state = TwoWay] ELSE m
        m2 == apply_data_to_controlled(m1)
        m3 == contained(m2, old, na, m2.data)
    IN  check_for_changes2(m3, ctx)

update(m, old, ctx, na) ==
    LET apply_to_controlled == IF m.state = Init_ THEN TRUE ELSE ~same(old, m.data)
        m1 == IF m.state = Init_ THEN [m EXCEPT !.state = TwoWay] ELSE m
        m2 == IF apply_to_controlled THEN apply_data_to_controlled(m1) ELSE m1
        m3 == contained(m2, old, na, m2.data)
    IN  check_for_changes2(m3, ctx)

\* layout that drains the pending change as event does.
layout_applies_pending(m, ctx, bc, na, size) ==
    LET m1 == apply_pending_changes(m, ctx)
        m2 == [contained(m1, bc, na, m1.data) EXCEPT !.child_size = Some(size)]
    IN  [check_for_changes2(m2, ctx) EXCEPT !.returned = Some(size)]

\* layout that returns the smallest size the constraints allow.
layout_returns_min_size(m, ctx, bc, na, size) ==
    LET m1 == [contained(m, bc, na, m.data) EXCEPT !.child_size = Some(size)]
    IN  [check_for_changes2(m1, ctx) EXCEPT !.returned = Some("min")]

\* size is what the wrapped widget's layout returns.
layout(m, ctx, bc, na, size) ==
    LET m1 == [contained(m, bc, na, m.data) EXCEPT !.child_size = Some(size)]
    IN  [check_for_changes2(m1, ctx) EXCEPT !.returned = Some(size)]

paint(m, na) == contained(m, Unit, na, m.data)

(***************************************************************************)
(* The tree                                                                *)
(***************************************************************************)
Ctx(sz) == [widget_id |-> HostId, size |-> sz]

\* The states of the bindable widget: the attribute of the first binding
\* and, where a second binding is chained, the attribute of that one.
Widgets == [attr : Values, attr2 : IF other = NoBinding THEN {"g0"} ELSE Others]

\* ctx.size() is an input of the call only where it is read: by SizeProperty,
\* when event applies a pending change.
CtxSizes ==
    IF binding = "Size" /\ state = TwoWay /\ pending_change # None
    THEN Values ELSE {0}

\* The host's own commands, which event handles itself; the wrapped widget is
\* not called and has no part in the outcome.
Intercepted(ev) ==
    \/ state = Init_ /\ ev = INIT_BINDINGS
    \/ state = TwoWay /\ ev = APPLY_BINDINGS

\* The constraints a layout call is handed and the sizes the wrapped widget
\* may answer with: the smallest the constraints allow, or a larger one.
BoxConstraints == {"tight", "loose"}
Sizes == {"min", "large"}

Moves(ev) == IF Intercepted(ev) THEN {controlled} ELSE Widgets

Edits(ev) == IF Intercepted(ev) THEN {data} ELSE DataSet

Last(m) ==
    [phase |-> m.phase, arg |-> m.arg, from |-> m.from, handled |-> m.handled,
     steps |-> m.steps, after_write |-> m.after_write,
     wrote_new |-> m.wrote_new, drained |-> m.drained, moved |-> m.moved,
     saw_change |-> m.saw_change, same_args |-> m.same_args,
     returned |-> CASE m.returned = None -> "none"
                    [] m.returned = m.child_size -> "child"
                    [] OTHER -> "other"]

Has(steps, s) == \E i \in DOMAIN steps : steps[i] = s

Count(steps, s) == Cardinality({i \in DOMAIN steps : steps[i] = s})

\* s occurs in steps, and before every t.
Before(steps, s, t) ==
    \E i \in DOMAIN steps :
        /\ steps[i] = s
        /\ \A j \in DOMAIN steps : steps[j] = t => i < j

\* The phase cycle that follows a change of the attribute made by the wrapped
\* widget in TwoWay: the call in which the widget moved the attribute to x and
\* the host ran detection ("detected"), the delivery of the APPLY_BINDINGS
\* command as the next call ("applied"), the update the tree runs after that
\* event ("updated").  Any other call ends the cycle.
Idle == [stage |-> "idle", x |-> 0]

NextCycle(m) ==
    CASE m.from = TwoWay /\ m.moved /\ Has(m.steps, "append_change_required") ->
            [stage |-> "detected", x |-> m.controlled.attr]
      [] OTHER ->
            CASE cycle.stage = "detected" /\ m.phase = "event"
                    /\ m.arg = APPLY_BINDINGS /\ m.state = TwoWay ->
                    [cycle EXCEPT !.stage = "applied"]
              [] cycle.stage = "applied" /\ m.phase = "update" ->
                    [cycle EXCEPT !.stage = "updated"]
              [] OTHER -> Idle

\* The variables after the call that left the host as m.
Return(m) ==
    /\ state' = m.state
    /\ widget_id' = m.widget_id
    /\ pending_change' = m.pending_change
    /\ controlled' = m.controlled
    /\ data' = m.data
    /\ queue' = m.queue
    /\ update_requested' = m.update_requested
    /\ quiet' = (quiet /\ ~m.touched)
    /\ writes' = IF quiet' THEN m.writes ELSE 0
    /\ cycle' = NextCycle(m)
    /\ last' = Last(m)
    /\ loop' = m.loop
    /\ UNCHANGED <<binding, other, chain, reached>>

NoCall == [phase |-> "none", arg |-> "", from |-> New, handled |-> FALSE,
           steps |-> <<>>, after_write |-> None, wrote_new |-> FALSE,
           drained |-> None, moved |-> FALSE, saw_change |-> FALSE,
           same_args |-> FALSE, returned |-> "none"]

\* The event loop of the tree when the last call was none it owed: owed is
\* "delivered" after the delivery of a queued command and "updated" after a
\* due update, turn tells two such calls in a row apart, stopped tells whether
\* the application and the wrapped widget have stopped changing the data and
\* the attribute.
NoLoop == [owed |-> "none", turn |-> 0, stopped |-> FALSE]

\* A host as BindingHost::new leaves it, built with a binding of bs and,
\* where os holds more than NoBinding, with .binding(other) chained after it.
Construct(bs, os) ==
    /\ state = New
    /\ widget_id = None
    /\ pending_change = None
    /\ binding \in bs
    /\ other \in os
    /\ chain = Leader
    /\ reached = NotReached
    /\ controlled \in Widgets
    /\ data \in DataSet
    /\ old_data = data
    /\ queue = <<>>
    /\ update_requested = FALSE
    /\ writes = 0
    /\ loop = NoLoop
    /\ quiet = TRUE
    /\ cycle = Idle
    /\ last = NoCall

Init == Construct(BindingKinds, {NoBinding})

\* An input event (mouse, key, a command of another widget) reaches the host.
EventOther ==
    /\ Len(queue) < MaxQueue
    /\ \E na \in Widgets, nd \in DataSet, sz \in CtxSizes :
          Return(event(Enter("event", "Other"), "Other", Ctx(sz), na, nd))
    /\ UNCHANGED old_data

\* The tree delivers the oldest queued command to its target, the host.
EventCommand ==
    /\ queue # <<>>
    /\ \E na \in Moves(Head(queue).sel), nd \in Edits(Head(queue).sel),
          sz \in CtxSizes :
          LET cmd == Head(queue)
              m0 == [Enter("event", cmd.sel) EXCEPT !.queue = Tail(queue)]
          IN  Return(event(m0, cmd.sel, Ctx(sz), na, nd))
    /\ UNCHANGED old_data

\* LifeCycle::WidgetAdded: the attach notification.
LifecycleWidgetAdded ==
    /\ Len(queue) < MaxQueue
    /\ \E na \in Widgets :
          Return(lifecycle(Enter("lifecycle", "WidgetAdded"), "WidgetAdded",
                           Ctx(0), na))
    /\ UNCHANGED old_data

\* Any other LifeCycle notification.
LifecycleOther ==
    /\ Len(queue) < MaxQueue
    /\ \E na \in Widgets :
          Return(lifecycle(Enter("lifecycle", "Other"), "Other", Ctx(0), na))
    /\ UNCHANGED old_data

\* The tree runs update with the data of the previous update and the
\* current data.
Update ==
    /\ Len(queue) < MaxQueue
    /\ \E na \in Widgets :
          LET m0 == [Enter("update", IF same(old_data, data) THEN "same" ELSE "changed")
                        EXCEPT !.update_requested = FALSE, !.args = old_data]
          IN  Return(update(m0, old_data, Ctx(0), na))
    /\ old_data' = data

Layout ==
    /\ Len(queue) < MaxQueue
    /\ \E na \in Widgets, bc \in BoxConstraints, size \in Sizes :
          Return(layout([Enter("layout", "") EXCEPT !.args = bc], Ctx(0), bc,
                        na, size))
    /\ UNCHANGED old_data

Paint ==
    /\ \E na \in Widgets :
          Return(paint([Enter("paint", "") EXCEPT !.args = Unit], na))
    /\ UNCHANGED old_data

\* Another widget of the tree changes the application data in its own event
\* call; the host is not called.
DataChange ==
    /\ \E nd \in DataSet \ {data} : data' = nd
    /\ quiet' = FALSE
    /\ cycle' = Idle
    /\ writes' = 0
    /\ last' = [NoCall EXCEPT !.phase = "data_change", !.from = state]
    /\ UNCHANGED <<state, widget_id, pending_change, controlled, binding,
                   other, chain, reached, old_data, queue, update_requested,
                   loop>>

Next ==
    \/ EventOther
    \/ EventCommand
    \/ LifecycleWidgetAdded
    \/ LifecycleOther
    \/ Update
    \/ Layout
    \/ Paint
    \/ DataChange

Spec == Init /\ [][Next]_vars

\* Hosts whose binding is restricted to one direction.
InitForward == Construct({"Forward"}, {NoBinding})

SpecForward == InitForward /\ [][Next]_vars

InitBack == Construct({"Back"}, {NoBinding})

SpecBack == InitBack /\ [][Next]_vars

\* Hosts whose binding is a LensBinding.
InitLens == Construct({"Lens"}, {NoBinding})

SpecLens == InitLens /\ [][Next]_vars

(***************************************************************************)
(* The tree driven by druid's event loop.  A command submitted with        *)
(* ctx.submit_command is delivered to its target as an event, and an       *)
(* update asked for with ctx.request_update, or due because the data       *)
(* changed, is run; the other calls happen or not as the application and   *)
(* the window system decide.  The application and the wrapped widget may   *)
(* stop changing the data and the attribute: from then on the tree makes   *)
(* only the calls it owes, and the wrapped widget does nothing in them.    *)
(***************************************************************************)
Delivered == [loop EXCEPT !.owed = "delivered", !.turn = 1 - @]

Updated == [loop EXCEPT !.owed = "updated", !.turn = 1 - @]

UpdateDue == update_requested \/ ~same(old_data, data)

\* What the wrapped widget may do to its attribute and to the data in the
\* event that delivers a command.  It edits the data only in an event that
\* starts with the data the last update saw: druid runs update right after
\* an event that changed the data.
LiveMoves(ev) == IF loop.stopped THEN {controlled} ELSE Moves(ev)

LiveEdits(ev) ==
    IF loop.stopped \/ ~same(old_data, data) THEN {data} ELSE Edits(ev)

\* The tree delivers the oldest queued command to its target, the host.
DeliverCommand ==
    /\ queue # <<>>
    /\ \E na \in LiveMoves(Head(queue).sel), nd \in LiveEdits(Head(queue).sel),
          sz \in CtxSizes :
          LET cmd == Head(queue)
              m0 == [Enter("event", cmd.sel)
                        EXCEPT !.queue = Tail(queue), !.loop = Delivered]
          IN  Return(event(m0, cmd.sel, Ctx(sz), na, nd))
    /\ UNCHANGED old_data

\* The tree runs update; once the environment stopped, only an update that
\* is due.
RunUpdate ==
    /\ Len(queue) < MaxQueue
    /\ loop.stopped => UpdateDue
    /\ \E na \in LiveMoves("update") :
          LET m0 == [Enter("update", IF same(old_data, data) THEN "same" ELSE "changed")
                        EXCEPT !.update_requested = FALSE, !.args = old_data,
                               !.loop = IF UpdateDue THEN Updated ELSE loop]
          IN  Return(update(m0, old_data, Ctx(0), na))
    /\ old_data' = data

\* The calls and changes the tree does not owe.
Unprompted ==
    /\ ~loop.stopped
    /\ \/ EventOther
       \/ LifecycleWidgetAdded
       \/ LifecycleOther
       \/ Layout
       \/ Paint
       \/ DataChange

\* The application and the wrapped widget stop changing data and attribute.
Stop ==
    /\ ~loop.stopped
    /\ loop' = [loop EXCEPT !.stopped = TRUE]
    /\ last' = [NoCall EXCEPT !.phase = "stop", !.from = state]
    /\ UNCHANGED <<state, widget_id, pending_change, controlled, binding,
                   other, chain, reached, data, old_data, queue,
                   update_requested, quiet, writes, cycle>>

NextLive ==
    \/ DeliverCommand
    \/ RunUpdate
    \/ Unprompted

\* The same tree with an environment that may stop, and in which the calls
\* the tree does not owe wait for the update that follows a change of the
\* data.
NextSettle ==
    \/ DeliverCommand
    \/ RunUpdate
    \/ same(old_data, data) /\ Unprompted
    \/ Stop

InitLive == Construct({"Value"}, {NoBinding})

\* The steps of the event loop, told by the parity they flip.
CommandDelivered == queue # <<>> /\ loop' = Delivered

RequestedUpdateRun ==
    update_requested /\ Len(queue) < MaxQueue /\ loop' = Updated

DueUpdateRun == UpdateDue /\ Len(queue) < MaxQueue /\ loop' = Updated

\* The tree delivers every queued command and runs every requested update.
\* Only DeliverCommand leaves loop as Delivered, and it can be taken whenever
\* a command is queued; only RunUpdate leaves it as Updated, and it does when
\* the update was due.  The queue of the model is bounded and an update that
\* could submit a command waits for room in it, which a delivery makes.
SpecLive ==
    /\ InitLive
    /\ [][NextLive]_vars
    /\ WF_loop(CommandDelivered)
    /\ SF_loop(RequestedUpdateRun)

\* The same with an environment that may stop, and the tree also runs update
\* after every change of the data.
SpecSettle ==
    /\ InitLive
    /\ [][NextSettle]_vars
    /\ WF_loop(CommandDelivered)
    /\ SF_loop(DueUpdateRun)

(***************************************************************************)
(* The Binding of a host, called method by method.  The host is past its   *)
(* seeding (TwoWay) and between two Widget method calls; each action is    *)
(* one call of a method of the host's binding as the host makes it, or a   *)
(* change made by the rest of the tree.                                    *)
(***************************************************************************)
\* Second bindings of hosts built as .binding(b0).binding(b1), which holds
\* the tuple b0.and(b1).
TupleOthers == {"Value", "Forward"}

Hosted(bs, os) ==
    /\ state = TwoWay
    /\ widget_id = Some(HostId)
    /\ pending_change = None
    /\ binding \in bs
    /\ other \in os
    /\ chain = Leader
    /\ reached = NotReached
    /\ controlled \in Widgets
    /\ data \in DataSet
    /\ old_data = data
    /\ queue = <<>>
    /\ update_requested = FALSE
    /\ writes = 0
    /\ loop = NoLoop
    /\ quiet = FALSE
    /\ cycle = Idle
    /\ last = NoCall

\* self.binding.apply_data_to_controlled(..), as update calls it; "again"
\* when the call before was apply_data_to_controlled too.
BindingApplyData ==
    /\ Return(apply_data_to_controlled(
                  Enter("apply_data_to_controlled",
                        IF last.phase = "apply_data_to_controlled"
                        THEN "again" ELSE "")))
    /\ UNCHANGED old_data

\* self.binding.append_change_required(..), as check_for_changes2 calls it;
\* "queued" when the slot it is handed holds a change.
BindingAppendChange ==
    /\ Return(append_change_required(
                  Enter("append_change_required",
                        IF pending_change # None THEN "queued" ELSE "")))
    /\ UNCHANGED old_data

\* apply_pending_changes, as event calls it, with the slot filled.
BindingApplyChange ==
    /\ pending_change # None
    /\ \E sz \in CtxSizes :
          Return(apply_pending_changes(Enter("apply_pending_changes", ""), Ctx(sz)))
    /\ UNCHANGED old_data

\* The bindable widget changes its attributes; the host is not called.
WidgetChange ==
    /\ \E na \in Widgets \ {controlled} : controlled' = na
    /\ last' = [NoCall EXCEPT !.phase = "widget_change", !.from = state]
    /\ UNCHANGED <<state, widget_id, pending_change, binding, other, chain,
                   reached, data,
                   old_data, queue, update_requested, quiet, writes, cycle,
                   loop>>

NextBinding ==
    \/ BindingApplyData
    \/ BindingAppendChange
    \/ BindingApplyChange
    \/ WidgetChange
    \/ DataChange

InitBinding == Hosted({"Value", "Lens"}, {NoBinding} \cup TupleOthers)

SpecBinding == InitBinding /\ [][NextBinding]_vars

(***************************************************************************)
(* The Property of a LensPropBinding, called method by method with the     *)
(* field the binding's lens selects.                                       *)
(***************************************************************************)
PropertyKinds == {"Value", "Size", "ReadOnly", "WriteOnly", "Writing"}

\* The variables after a step in which the host was not called.
Outside(phase) ==
    /\ last' = [NoCall EXCEPT !.phase = phase, !.from = state]
    /\ UNCHANGED <<state, widget_id, binding, other, chain, reached,
                   old_data, queue,
                   update_requested, quiet, writes, cycle, loop>>

PropertyWrite ==
    /\ controlled' = write_prop(Sole, controlled, data.f)
    /\ Outside("write_prop")
    /\ UNCHANGED <<data, pending_change>>

PropertyAppendChanges ==
    /\ pending_change' = append_changes(Sole, controlled, data.f, pending_change)
    /\ Outside("append_changes")
    /\ UNCHANGED <<data, controlled>>

\* update_data_from_change takes its Change by value: the caller holds one.
PropertyUpdateData ==
    /\ \E sz \in IF binding = "Size" THEN Values ELSE {0} :
          data' = [data EXCEPT !.f = update_data_from_change(
                                         Sole, controlled, Ctx(sz), @, Unit)]
    /\ Outside("update_data_from_change")
    /\ UNCHANGED <<controlled, pending_change>>

PropertyInitialiseData ==
    /\ data' = [data EXCEPT !.f = initialise_data(Sole, controlled, Ctx(0), @)]
    /\ Outside("initialise_data")
    /\ UNCHANGED <<controlled, pending_change>>

NextProperty ==
    \/ PropertyWrite
    \/ PropertyAppendChanges
    \/ PropertyUpdateData
    \/ PropertyInitialiseData
    \/ WidgetChange
    \/ DataChange

InitProperty == Hosted(PropertyKinds, {NoBinding})

SpecProperty == InitProperty /\ [][NextProperty]_vars

(***************************************************************************)
(* AxisFractionProperty on its own: the methods of the Property under a    *)
(* LensPropBinding, on a widget with a whole limit of at most MaxLimit and *)
(* a data field that holds a number of thousandths which the limit         *)
(* divides evenly: a fraction k / 1000 for which k * limit / 1000 is whole.*)
(***************************************************************************)
Fractions(limit) ==
    {f64_div(f64_from(k), Thousand) :
        k \in {j \in 0..Thousand : (j * limit) % Thousand = 0}}

InitFraction ==
    /\ state = TwoWay
    /\ widget_id = Some(HostId)
    /\ pending_change = None
    /\ binding = "Fraction"
    /\ other = NoBinding
    /\ chain = Leader
    /\ reached = NotReached
    /\ \E limit \in 1..MaxLimit :
          /\ controlled = [attr |-> Zero64, attr2 |-> "g0", limit |-> limit]
          /\ \E f \in Fractions(limit) : data = [f |-> f, g |-> "g0"]
    /\ old_data = data
    /\ queue = <<>>
    /\ update_requested = FALSE
    /\ writes = 0
    /\ loop = NoLoop
    /\ quiet = FALSE
    /\ cycle = Idle
    /\ last = NoCall

NextFraction ==
    \/ PropertyWrite
    \/ PropertyAppendChanges
    \/ PropertyInitialiseData

SpecFraction == InitFraction /\ [][NextFraction]_vars

(***************************************************************************)
(* BindableAccess on its own: a host is built around a chain of widgets    *)
(* and reaches for its bindable widget, as every method of the host does   *)
(* before it calls the binding.                                            *)
(***************************************************************************)
\* The chains of at most MaxDepth widgets with a child, closed by a leaf.
\* A trivial wrapper implements BindableAccess only around a widget that
\* does (W: BindableAccess), which every widget here does.
Chains ==
    UNION {{p \o <<l>> : p \in [1..n -> TrivialWrappers \cup SelfWithChild],
                         l \in SelfLeaves} : n \in 0..MaxDepth}

\* self.contained.bindable(), as apply_pending_changes and
\* check_for_changes2 call it.
Bindable ==
    /\ reached' = [reached EXCEPT !.ref = Some(bindable(chain, 1))]
    /\ last' = [NoCall EXCEPT !.phase = "bindable", !.from = state]
    /\ UNCHANGED <<state, widget_id, pending_change, controlled, binding,
                   other, chain, data, old_data, queue, update_requested,
                   quiet, writes, cycle, loop>>

\* self.contained.bindable_mut(), as update calls it.
BindableMut ==
    /\ reached' = [reached EXCEPT !.mut = Some(bindable_mut(chain, 1))]
    /\ last' = [NoCall EXCEPT !.phase = "bindable_mut", !.from = state]
    /\ UNCHANGED <<state, widget_id, pending_change, controlled, binding,
                   other, chain, data, old_data, queue, update_requested,
                   quiet, writes, cycle, loop>>

NextAccess ==
    \/ Bindable
    \/ BindableMut

InitAccess ==
    /\ state = New
    /\ widget_id = None
    /\ pending_change = None
    /\ binding = "Value"
    /\ other = NoBinding
    /\ chain \in Chains
    /\ reached = NotReached
    /\ controlled = [attr |-> 0, attr2 |-> "g0"]
    /\ data = [f |-> 0, g |-> "g0"]
    /\ old_data = data
    /\ queue = <<>>
    /\ update_requested = FALSE
    /\ writes = 0
    /\ loop = NoLoop
    /\ quiet = TRUE
    /\ cycle = Idle
    /\ last = NoCall

SpecAccess == InitAccess /\ [][NextAccess]_vars

(***************************************************************************)
(* Properties                                                              *)
(***************************************************************************)
Calls == {"event", "lifecycle", "update", "layout", "paint"}

CountSel(q, sel) == Cardinality({i \in DOMAIN q : q[i].sel = sel})

Rank(s) == CASE s = New -> 0 [] s = Init_ -> 1 [] s = TwoWay -> 2

\* C1: the host applies a change to the data only inside an event call: a
\* lifecycle, update, layout or paint call never runs apply_change_to_data
\* and leaves the data as it was.
C1_DataChangedOnlyInEvent ==
    [][ last'.phase \in Calls \ {"event"} =>
            /\ ~Has(last'.steps, "apply_change_to_data")
            /\ data' = data ]_vars

\* A call outside event in TwoWay that found a divergence and left it queued.
C1_Witness ==
    /\ last.phase \in Calls \ {"event"}
    /\ last.from = TwoWay
    /\ pending_change # None
    /\ controlled.attr # data.f

\* C2: a call that runs while the host is New or Init runs no detection,
\* leaves the pending slot as it is, schedules no APPLY_BINDINGS command and
\* applies no change to the data, whatever the attribute and the Property.
C2_NothingCollectedBeforeTwoWay ==
    [][ (last'.phase \in Calls /\ state' \in {New, Init_}) =>
            /\ ~Has(last'.steps, "append_change_required")
            /\ ~Has(last'.steps, "apply_change_to_data")
            /\ pending_change' = pending_change
            /\ CountSel(queue', APPLY_BINDINGS) <= CountSel(queue, APPLY_BINDINGS)
      ]_vars

\* An event handled in Init by a host whose Property always reports a change,
\* while the attribute differs from the data field.
C2_Witness ==
    /\ binding = "Size"
    /\ state = Init_
    /\ last.phase = "event"
    /\ last.from = Init_
    /\ controlled.attr # data.f

\* C3: after the wrapped widget moved the attribute to x in TwoWay and the
\* cycle detection, APPLY_BINDINGS event, update ran, the data field is x and
\* the attribute is still x.
C3_RoundTrip ==
    (binding = "Value" /\ cycle.stage \in {"applied", "updated"}) =>
        /\ data.f = cycle.x
        /\ controlled.attr = cycle.x

\* The cycle completed, and its update wrote the changed data back.
C3_Witness ==
    /\ binding = "Value"
    /\ cycle.stage = "updated"
    /\ last.arg = "changed"
    /\ last.after_write = Some(cycle.x)

\* C4: the update call that takes the host from Init to TwoWay runs
\* apply_data_to_controlled exactly once, before forwarding, also when old and
\* new data are the same; the attribute then equals the data field, and still
\* does when the call returns unless the wrapped widget moved it.
C4_SeedOnTransition ==
    (last.phase = "update" /\ last.from = Init_) =>
        /\ state = TwoWay
        /\ Count(last.steps, "apply_data_to_controlled") = 1
        /\ Before(last.steps, "apply_data_to_controlled", "forward")
        /\ binding = "Value" =>
              /\ last.after_write = Some(data.f)
              /\ ~last.moved => controlled.attr = data.f

\* The host entered TwoWay on an update with unchanged data and the attribute,
\* which differed from the field, was seeded.
C4_Witness ==
    /\ binding = "Value"
    /\ last.phase = "update"
    /\ last.from = Init_
    /\ last.arg = "same"
    /\ last.wrote_new
    /\ controlled.attr = data.f

\* C5: a call applies a change to the data exactly once when it is an event
\* call in TwoWay that finds the slot filled, and never otherwise; the change
\* applied is the one taken from the slot, it is applied before the call is
\* forwarded and before detection, and the slot is filled after the call only
\* if detection in this call found the attribute to differ from the field.
C5_AppliedExactlyOnce ==
    [][ last'.phase \in Calls =>
            /\ Count(last'.steps, "apply_change_to_data") =
                  IF last'.phase = "event" /\ state = TwoWay /\ pending_change # None
                  THEN 1 ELSE 0
            /\ Has(last'.steps, "apply_change_to_data") =>
                  /\ last'.drained = pending_change
                  /\ Before(last'.steps, "apply_change_to_data", "forward")
                  /\ Before(last'.steps, "apply_change_to_data",
                            "append_change_required")
                  /\ (binding = "Value" /\ pending_change' # None) =>
                        controlled'.attr # data'.f
      ]_vars

\* An event drained the slot while a second wake-up for the same divergence
\* is still queued.
C5_Witness ==
    /\ binding = "Value"
    /\ last.phase = "event"
    /\ last.arg = APPLY_BINDINGS
    /\ last.drained # None
    /\ pending_change = None
    /\ queue # <<>>
    /\ Head(queue).sel = APPLY_BINDINGS

\* C6 (as claimed): as long as nothing but the binding changed the data or
\* the attribute, the Property is written at most once, and in TwoWay the
\* slot is empty, no APPLY_BINDINGS is queued and the data is unwritten.
C6_Original ==
    (binding = "Value" /\ quiet) =>
        /\ writes <= 1
        /\ state = TwoWay =>
              /\ pending_change = None
              /\ CountSel(queue, APPLY_BINDINGS) = 0
              /\ data = old_data

\* C7 (as claimed): the state never moves backwards.
C7_Original == [][ Rank(state') >= Rank(state) ]_vars

\* C8 (as claimed): the host moves from Init to TwoWay in the first event
\* call after it entered Init, and in no other call.
C8_Original ==
    [][ /\ (state = Init_ /\ last'.phase = "event") => state' = TwoWay
        /\ (state = Init_ /\ state' = TwoWay) => last'.phase = "event" ]_vars

\* C8 (amended): the host moves from Init to TwoWay in the first update call
\* after it entered Init, and in no other call; an event call in Init leaves
\* the state Init.
C8_TransitionOnUpdate ==
    [][ /\ (state = Init_ /\ last'.phase = "update") => state' = TwoWay
        /\ (state = Init_ /\ state' = TwoWay) => last'.phase = "update"
        /\ (state = Init_ /\ last'.phase = "event") => state' = Init_ ]_vars

\* The host entered TwoWay in an update call.
C8_Witness ==
    /\ last.phase = "update"
    /\ last.from = Init_
    /\ state = TwoWay

\* C9 (as claimed): a call in New other than the attach notification only
\* forwards to the wrapped widget.
C9_Original ==
    (/\ last.from = New
     /\ last.phase \in Calls
     /\ ~(last.phase = "lifecycle" /\ last.arg = "WidgetAdded")) =>
        last.steps = <<"forward">>

\* C10: WidgetAdded received in New records the host's identifier, moves the
\* host to Init and submits exactly one command, INIT_BINDINGS addressed to
\* that identifier.
C10_AttachSchedulesInit ==
    [][ (state = New /\ last'.phase = "lifecycle" /\ last'.arg = "WidgetAdded") =>
            /\ state' = Init_
            /\ widget_id' = Some(HostId)
            /\ Count(last'.steps, "submit_command") = 1
            /\ queue' = Append(queue, [sel |-> INIT_BINDINGS,
                                       target |-> widget_id'[1]]) ]_vars

\* The host was just attached.
C10_Witness ==
    /\ last.phase = "lifecycle"
    /\ last.arg = "WidgetAdded"
    /\ last.from = New
    /\ state = Init_
    /\ queue = <<[sel |-> INIT_BINDINGS, target |-> HostId]>>

\* C11: an event call in Init that carries INIT_BINDINGS is handled by the
\* host alone: it is marked handled, the wrapped widget is not called, the
\* data stays as it was and an update is requested.  Every other event call
\* in Init only forwards to the wrapped widget.  Either way the state and
\* the pending slot are left alone.
C11_InitInterceptsInitBindings ==
    [][ (state = Init_ /\ last'.phase = "event") =>
            /\ state' = Init_
            /\ pending_change' = pending_change
            /\ IF last'.arg = INIT_BINDINGS
               THEN /\ last'.handled
                    /\ last'.steps = <<"set_handled", "request_update">>
                    /\ update_requested'
                    /\ data' = data
                    /\ controlled' = controlled
                    /\ queue' = Tail(queue)
               ELSE /\ ~last'.handled
                    /\ last'.steps = <<"forward">>
                    /\ update_requested' = update_requested
      ]_vars

\* INIT_BINDINGS was delivered in Init while the attribute differs from the
\* data field.
C11_Witness ==
    /\ last.phase = "event"
    /\ last.arg = INIT_BINDINGS
    /\ last.from = Init_
    /\ last.handled
    /\ update_requested
    /\ controlled.attr # data.f

\* The slot of one binding of the tuple inside the combined slot.
LegSlot(slot, i) == IF slot = None THEN None ELSE slot[1][i]

\* C12: when the slot of a tuple binding holds a change of the first binding
\* only, applying it runs apply_change_to_data for the first binding and not
\* for the second; the second binding's data field and its attribute are
\* afterwards what they were before.
C12_OnlyDivergedLegApplied ==
    [][ (/\ other # NoBinding
         /\ pending_change # None
         /\ LegSlot(pending_change, 1) # None
         /\ LegSlot(pending_change, 2) = None
         /\ last'.phase = "apply_pending_changes") =>
            /\ Has(last'.steps, "apply_change_to_data.0")
            /\ ~Has(last'.steps, "apply_change_to_data.1")
            /\ data'.g = data.g
            /\ controlled'.attr2 = controlled.attr2
      ]_vars

\* A change of the first attribute alone was applied to the data: the first
\* field now agrees with its attribute, the second binding was not run.
C12_Witness ==
    /\ binding = "Value"
    /\ other = "Value"
    /\ last.phase = "apply_pending_changes"
    /\ last.drained = Some(<<Some(Unit), None>>)
    /\ data.f = controlled.attr
    /\ data.g = controlled.attr2

\* C13: a tuple binding runs its first binding before its second in every
\* method: apply_data_to_controlled runs both, once each, in that order;
\* detection runs both, once each, in that order; apply_change_to_data runs
\* the bindings whose slot is filled, the first before the second.
C13_LegZeroFirst ==
    other # NoBinding =>
        /\ last.phase = "apply_data_to_controlled" =>
              /\ Count(last.steps, "apply_data_to_controlled.0") = 1
              /\ Count(last.steps, "apply_data_to_controlled.1") = 1
              /\ Before(last.steps, "apply_data_to_controlled.0",
                        "apply_data_to_controlled.1")
        /\ last.phase = "append_change_required" =>
              /\ Count(last.steps, "append_change_required.0") = 1
              /\ Count(last.steps, "append_change_required.1") = 1
              /\ Before(last.steps, "append_change_required.0",
                        "append_change_required.1")
        /\ last.phase = "apply_pending_changes" =>
              /\ Count(last.steps, "apply_change_to_data.0") =
                    IF LegSlot(last.drained, 1) # None THEN 1 ELSE 0
              /\ Count(last.steps, "apply_change_to_data.1") =
                    IF LegSlot(last.drained, 2) # None THEN 1 ELSE 0
              /\ Has(last.steps, "apply_change_to_data.0") =>
                    Before(last.steps, "apply_change_to_data.0",
                           "apply_change_to_data.1")

\* Both bindings had diverged and both changes were applied.
C13_Witness ==
    /\ binding = "Value"
    /\ other = "Value"
    /\ last.phase = "apply_pending_changes"
    /\ last.drained = Some(<<Some(Unit), Some(Unit)>>)
    /\ last.steps = <<"apply_change_to_data", "apply_change_to_data.0",
                      "apply_change_to_data.1">>

\* What detection by one binding leaves in its own slot, which held prior:
\* a value binding sets it when attribute and field differ and keeps it
\* otherwise, a LensBinding holds the attribute's value exactly when they
\* differ, a forward() binding never touches it.
Detected(kind, attr, field, prior) ==
    CASE kind = "Value" -> IF attr # field THEN Some(Unit) ELSE prior
      [] kind = "Lens" -> IF attr # field THEN Some(attr) ELSE None
      [] kind = "Forward" -> prior

\* C14: after detection on a tuple binding the slot is None exactly when
\* neither binding holds a change, and Some((c0, c1)) otherwise, c0 and c1
\* being what each binding's own detection leaves of its earlier slot: a
\* change one binding had accrued survives the detection of the other.
C14_CombinedSlot ==
    [][ (other # NoBinding /\ last'.phase = "append_change_required") =>
            LET c0 == Detected(binding, controlled.attr, data.f,
                               LegSlot(pending_change, 1))
                c1 == Detected(other, controlled.attr2, data.g,
                               LegSlot(pending_change, 2))
            IN  /\ pending_change' # Some(<<None, None>>)
                /\ pending_change' = None <=> (c0 = None /\ c1 = None)
                /\ pending_change' # None => pending_change' = Some(<<c0, c1>>)
      ]_vars

\* The first binding keeps its accrued change, although its attribute agrees
\* with its field again, while detection finds the second binding diverged.
C14_Witness ==
    /\ binding = "Value"
    /\ other = "Value"
    /\ last.phase = "append_change_required"
    /\ pending_change = Some(<<Some(Unit), Some(Unit)>>)
    /\ controlled.attr = data.f
    /\ controlled.attr2 # data.g

\* C15: a host whose binding is restricted with forward() never carries a
\* change of the attribute to the data: after every call the slot is empty
\* and no APPLY_BINDINGS command is queued, no call runs
\* apply_change_to_data, and a call in which the wrapped widget cannot edit
\* the data (every call but an event forwarded to it) leaves the data as
\* it was.
C15_ForwardNeverWritesData ==
    [][ (binding = "Forward" /\ last'.phase \in Calls) =>
            /\ pending_change' = None
            /\ CountSel(queue', APPLY_BINDINGS) = 0
            /\ ~Has(last'.steps, "apply_change_to_data")
            /\ (last'.phase # "event" \/ last'.handled) => data' = data
      ]_vars

\* In TwoWay the wrapped widget moved the attribute away from the data field
\* and detection ran in the same call.
C15_Witness ==
    /\ binding = "Forward"
    /\ last.from = TwoWay
    /\ last.moved
    /\ Has(last.steps, "append_change_required")
    /\ controlled.attr # data.f
    /\ pending_change = None

\* C16: a host whose binding is restricted with back() never writes the
\* attribute: an apply_data_to_controlled it runs, at the seeding or after a
\* change of the data, leaves the widget as it was, and the widget changes in
\* a call only if the wrapped widget changed it.  Detection and application
\* are those of the wrapped value binding: detection fills the slot when
\* attribute and field differ and keeps it otherwise, and an APPLY_BINDINGS
\* event that finds the slot filled copies the attribute into the field and
\* leaves the rest of the data alone.
C16_BackNeverWritesWidget ==
    [][ (binding = "Back" /\ last'.phase \in Calls) =>
            /\ ~last'.wrote_new
            /\ ~last'.moved => controlled' = controlled
            /\ Has(last'.steps, "append_change_required") =>
                  pending_change' =
                      Detected("Value", controlled'.attr, data'.f,
                               IF last'.drained # None THEN None
                               ELSE pending_change)
            /\ (last'.arg = APPLY_BINDINGS /\ last'.drained # None) =>
                  data' = [data EXCEPT !.f = controlled.attr]
      ]_vars

\* The seeding update ran apply_data_to_controlled while attribute and field
\* differed; they still differ, and detection queued the attribute's value.
C16_Witness ==
    /\ binding = "Back"
    /\ last.phase = "update"
    /\ last.from = Init_
    /\ Has(last.steps, "apply_data_to_controlled")
    /\ ~last.moved
    /\ controlled.attr # data.f
    /\ pending_change = Some(Unit)

\* C17: a ReadOnlyProperty never writes: write_prop leaves the controlled
\* widget as it was whatever the field holds, while append_changes,
\* update_data_from_change and initialise_data are those of the wrapped value
\* Property: detection fills the slot when attribute and field differ and
\* keeps it otherwise, and the fold copies the attribute into the field.
C17_ReadOnlySuppressesWrite ==
    [][ binding = "ReadOnly" =>
            /\ last'.phase = "write_prop" => controlled' = controlled
            /\ last'.phase = "append_changes" =>
                  pending_change' =
                      Detected("Value", controlled.attr, data.f, pending_change)
            /\ last'.phase \in {"update_data_from_change", "initialise_data"} =>
                  data' = [data EXCEPT !.f = controlled.attr]
      ]_vars

\* write_prop was called while attribute and field differ, and they still do.
C17_Witness ==
    /\ binding = "ReadOnly"
    /\ last.phase = "write_prop"
    /\ controlled.attr # data.f

\* C18: a WriteOnlyProperty and a PropertyWrapper<Writing, S> never report a
\* change and never change the field: append_changes leaves the slot as it
\* was, update_data_from_change and initialise_data leave the data as it was,
\* and write_prop sets the attribute to the field's value.
C18_WriteOnlyNeverReports ==
    [][ (binding \in {"WriteOnly", "Writing"}) =>
            /\ last'.phase = "append_changes" => pending_change' = pending_change
            /\ last'.phase \in {"update_data_from_change", "initialise_data"} =>
                  data' = data
            /\ last'.phase = "write_prop" =>
                  controlled' = [controlled EXCEPT !.attr = data.f]
            /\ pending_change' = None
      ]_vars

\* update_data_from_change was called while attribute and field differ, and
\* the field kept its value.
C18_Witness ==
    /\ binding = "WriteOnly"
    /\ last.phase = "update_data_from_change"
    /\ controlled.attr # data.f
    /\ pending_change = None

\* C19 (as claimed): for a value Property and a LensBinding, while the
\* attribute is the same as the data field there is no write-back: detection that finds them the same adds no change to the
\* slot, and an APPLY_BINDINGS event that finds them the same and the slot
\* filled by an earlier detection leaves the data as it was.
C19_Original ==
    [][ (binding \in {"Value", "Lens"} /\ last'.phase \in Calls) =>
            /\ (/\ Has(last'.steps, "append_change_required")
                /\ same(controlled'.attr, data'.f)) =>
                  pending_change' \in
                      {None, IF last'.drained # None THEN None ELSE pending_change}
            /\ (/\ last'.arg = APPLY_BINDINGS
                /\ last'.drained # None
                /\ same(controlled.attr, data.f)) =>
                  data' = data
      ]_vars

\* C20 (as claimed): every call (event, lifecycle, update, layout, paint)
\* that finds the host in TwoWay runs detection once, after forwarding the
\* call, and when detection leaves the slot filled the call ends by
\* submitting APPLY_BINDINGS to the host's own identifier.
C20_Original ==
    [][ (state = TwoWay /\ last'.phase \in Calls) =>
            /\ Count(last'.steps, "append_change_required") = 1
            /\ Has(last'.steps, "forward") =>
                  Before(last'.steps, "forward", "append_change_required")
            /\ pending_change' # None =>
                  /\ last'.steps[Len(last'.steps)] = "submit_command"
                  /\ queue' # <<>>
                  /\ queue'[Len(queue')] =
                        [sel |-> APPLY_BINDINGS, target |-> widget_id[1]]
      ]_vars

\* C21 (as claimed): a call in which apply_data_to_controlled wrote a value
\* Property ends with the requests of that Property's Requests marker issued
\* on the context, and notify issues for Layout a layout request, for Paint a
\* paint request, for AnimFrame an animation frame request and for a tuple
\* the requests of its components in order.
C21_Original ==
    (/\ binding = "Value"
     /\ last.phase \in Calls
     /\ Has(last.steps, "apply_data_to_controlled")) =>
        /\ Requests(Sole) = Marker("Paint")
        /\ Has(last.steps, "request_paint")
        /\ notify(Marker("Layout")) = <<"request_layout">>
        /\ notify(Marker("Paint")) = <<"request_paint">>
        /\ notify(Marker("AnimFrame")) = <<"request_anim_frame">>
        /\ notify(MarkerTuple(<<Marker("Paint"), Marker("Layout")>>)) =
              <<"request_paint", "request_layout">>

\* C26: an update call of a host in TwoWay runs apply_data_to_controlled
\* exactly once when the old and the new data are not same and not at all
\* when they are; lifecycle, layout and paint calls never run it.
C26_UpdateReappliesOnChange ==
    /\ (last.phase = "update" /\ last.from = TwoWay) =>
          Count(last.steps, "apply_data_to_controlled") =
              IF last.arg = "changed" THEN 1 ELSE 0
    /\ (last.phase \in {"lifecycle", "layout", "paint"}) =>
          ~Has(last.steps, "apply_data_to_controlled")

C26_Witness ==
    /\ last.phase = "update"
    /\ last.from = TwoWay
    /\ last.arg = "same"
    /\ controlled.attr # data.f
    /\ ~Has(last.steps, "apply_data_to_controlled")

\* C27 (as claimed): in a call outside the event phase of a host in TwoWay,
\* the call is forwarded to the wrapped widget before
\* apply_data_to_controlled is re-run for changed data, which happens before
\* divergence detection.
C27_Original ==
    (/\ last.phase = "update"
     /\ last.from = TwoWay
     /\ Has(last.steps, "apply_data_to_controlled")) =>
        /\ Before(last.steps, "forward", "apply_data_to_controlled")
        /\ Before(last.steps, "apply_data_to_controlled", "append_change_required")

\* C28: one event call applies a pending change to the data at most once and
\* runs detection at most once, also for a Property whose detection reports
\* a change after every write-back (SizeProperty): what that detection
\* queues stays in the slot until a later event call.
C28_OneApplicationPerEvent ==
    (last.phase = "event") =>
        /\ Count(last.steps, "apply_change_to_data") <= 1
        /\ Count(last.steps, "append_change_required") <= 1
        /\ (last.from = TwoWay /\ binding = "Size") => pending_change # None

C28_Witness ==
    /\ binding = "Size"
    /\ last.phase = "event"
    /\ last.from = TwoWay
    /\ last.drained # None
    /\ Count(last.steps, "apply_change_to_data") = 1
    /\ pending_change # None

\* C29 (as claimed): at any time at most one APPLY_BINDINGS command
\* addressed to the host is outstanding, however many lifecycle, update and
\* layout calls see the same pending divergence before an event runs.
C29_Original ==
    CountSel(queue, APPLY_BINDINGS) <= 1

\* C30: at the end of every call of a host in TwoWay with a non-empty
\* pending slot, at least one APPLY_BINDINGS command addressed to the host's
\* identifier is in the command queue.
C30_PendingHasWakeUp ==
    (state = TwoWay /\ pending_change # None) =>
        \E i \in DOMAIN queue :
            /\ queue[i].sel = APPLY_BINDINGS
            /\ widget_id = Some(queue[i].target)

\* A paint call, which runs no detection and submits nothing, ends with the
\* slot filled by an earlier call whose wake-up is still queued.
C30_Witness ==
    /\ state = TwoWay
    /\ last.phase = "paint"
    /\ binding = "Value"
    /\ pending_change # None
    /\ CountSel(queue, APPLY_BINDINGS) = 1

\* C25: an event call of a host in TwoWay first drains the slot and applies
\* the change to the data, then forwards the event to the wrapped widget,
\* then runs detection; the data handed to the wrapped widget are the data
\* the drained change was applied to.
C25_DrainForwardDetect ==
    (last.phase = "event" /\ last.from = TwoWay) =>
        /\ Has(last.steps, "append_change_required")
        /\ Has(last.steps, "forward") =>
              Before(last.steps, "forward", "append_change_required")
        /\ (last.drained # None) =>
              /\ Before(last.steps, "apply_change_to_data", "forward")
              /\ Before(last.steps, "apply_change_to_data", "append_change_required")
              /\ Has(last.steps, "forward") => last.saw_change

\* An event other than the host's own commands reaches the wrapped widget
\* after a change queued by an earlier call was applied to the data.
C25_Witness ==
    /\ binding = "Value"
    /\ last.phase = "event"
    /\ last.from = TwoWay
    /\ last.arg = "Other"
    /\ last.drained # None
    /\ last.saw_change
    /\ last.steps[1] = "apply_change_to_data"
    /\ Has(last.steps, "forward")

\* C24: apply_data_to_controlled is idempotent: run a second time right
\* after the first, with the same data, it leaves the attributes of the
\* widget, the data and the pending slot as the first run left them.
C24_ApplyDataIdempotent ==
    [][ (last'.phase = "apply_data_to_controlled" /\ last'.arg = "again") =>
            /\ controlled' = controlled
            /\ data' = data
            /\ pending_change' = pending_change
      ]_vars

\* The second of two runs in a row: the attribute already holds the field.
C24_Witness ==
    /\ last.phase = "apply_data_to_controlled"
    /\ last.arg = "again"
    /\ Has(last.steps, "apply_data_to_controlled")
    /\ controlled.attr = data.f
    /\ ~last.wrote_new

\* The first widget of the chain w that is not a trivial wrapper.
FirstSelf(w) ==
    CHOOSE i \in DOMAIN w :
        /\ w[i] \notin TrivialWrappers
        /\ \A j \in 1..(i - 1) : w[j] \in TrivialWrappers

\* C22: around a widget that declares itself bindable, through any chain of
\* trivial wrappers (IdentityWrapper, LensWrap, Scope), bindable() and
\* bindable_mut() both return that widget: the reach stops at the first
\* widget that returns itself, whatever lies below it.
C22_ReachesFirstSelfBindable ==
    /\ (reached.ref # None) => reached.ref = Some(FirstSelf(chain))
    /\ (reached.mut # None) => reached.mut = Some(FirstSelf(chain))
    /\ \A r \in {reached.ref, reached.mut} :
          (r # None) => chain[r[1]] \in SelfWithChild \cup SelfLeaves

\* Two wrappers, one of them Scope, around a Scroll around a label: both
\* calls returned the Scroll.
C22_Witness ==
    /\ Len(chain) = 4
    /\ chain[1] = "Scope"
    /\ chain[2] \in TrivialWrappers
    /\ chain[3] = "Scroll"
    /\ reached = [ref |-> Some(3), mut |-> Some(3)]

\* C23: after the axis-fraction Property wrote a fraction of so many
\* thousandths into a widget whose limit divides them evenly, reading the
\* Property returns exactly that fraction and detection reports no change.
C23_FractionRoundTrip ==
    (binding = "Fraction" /\ last.phase = "write_prop") =>
        /\ axis_fraction_read(Sole, controlled) = data.f
        /\ append_changes(Sole, controlled, data.f, None) = None

\* The fraction 0.5 written into a widget with limit 400: position 200.
C23_Witness ==
    /\ binding = "Fraction"
    /\ last.phase = "write_prop"
    /\ controlled.limit = 400
    /\ data.f = f64_div(f64_from(1), 2)
    /\ controlled.attr = f64_from(200)
    /\ axis_fraction_read(Sole, controlled) = data.f

\* C39: detection by a LensBinding overwrites the slot: afterwards the slot
\* is Some(v), v the widget's lens value, exactly when v is not same as the
\* data field, and None otherwise, whatever it held; detection by a value
\* Property sets the slot when the values differ and leaves it as it was,
\* a queued change included, when they agree.
C39_LensOverwritesValueSets ==
    [][ (other = NoBinding /\ last'.phase = "append_change_required") =>
            /\ (binding = "Lens") =>
                  /\ (pending_change' # None) <=> ~same(controlled.attr, data.f)
                  /\ (pending_change' # None) =>
                        pending_change' = Some(controlled.attr)
            /\ (binding = "Value") =>
                  /\ ~same(controlled.attr, data.f) =>
                        pending_change' = Some(Unit)
                  /\ same(controlled.attr, data.f) =>
                        pending_change' = pending_change
            /\ controlled' = controlled
            /\ data' = data
      ]_vars

\* A LensBinding's detection cleared a change queued earlier, the attribute
\* having returned to the value of the field.
C39_Witness ==
    /\ binding = "Lens"
    /\ other = NoBinding
    /\ last.phase = "append_change_required"
    /\ last.arg = "queued"
    /\ pending_change = None
    /\ controlled.attr = data.f
    /\ Has(last.steps, "append_change_required")

\* C38: apply_change_to_data of a LensBinding or a LensPropBinding writes
\* the bound data field only: the other field of the data and the widget are
\* what they were; a value Property leaves in the field the widget's live
\* value, assigned when it is not same as the field, and a LensBinding the
\* change it was handed.
C38_OnlyBoundFieldWritten ==
    [][ (last'.phase = "apply_pending_changes" /\ pending_change # None) =>
            /\ controlled' = controlled
            /\ (other = NoBinding) =>
                  /\ data'.g = data.g
                  /\ (binding = "Value") =>
                        data'.f = IF ~same(controlled.attr, data.f)
                                  THEN controlled.attr ELSE data.f
                  /\ (binding = "Lens") => data'.f = pending_change[1]
      ]_vars

\* A value Property's change was applied: the field took the live value and
\* the other field kept a value that is not its default.
C38_Witness ==
    /\ binding = "Value"
    /\ other = NoBinding
    /\ last.phase = "apply_pending_changes"
    /\ last.drained = Some(Unit)
    /\ Has(last.steps, "apply_change_to_data")
    /\ data.f = controlled.attr
    /\ data.f # 0
    /\ data.g = "g1"

\* C32 (as claimed): an event that carries one of the host's own commands,
\* INIT_BINDINGS or APPLY_BINDINGS, is marked handled and never forwarded to
\* the wrapped widget, in whichever state it is delivered.
C32_Original ==
    (last.phase = "event" /\ last.arg \in {INIT_BINDINGS, APPLY_BINDINGS}) =>
        /\ last.handled
        /\ ~Has(last.steps, "forward")

\* C33: in TwoWay an event that carries APPLY_BINDINGS is marked handled and
\* not forwarded to the wrapped widget, and detection runs after it; when it
\* finds the slot empty it applies nothing and leaves the data and the
\* attributes of the widget as they were.
C33_ApplyBindingsHandled ==
    [][ (state = TwoWay /\ last'.phase = "event"
                        /\ last'.arg = APPLY_BINDINGS) =>
            /\ last'.handled
            /\ ~Has(last'.steps, "forward")
            /\ Before(last'.steps, "set_handled", "append_change_required")
            /\ Count(last'.steps, "append_change_required") = 1
            /\ (pending_change = None) =>
                  /\ ~Has(last'.steps, "apply_change_to_data")
                  /\ data' = data
                  /\ controlled' = controlled
      ]_vars

\* A stale wake-up: an earlier event had already drained the slot, so
\* nothing was applied; the event was handled and detection ran.
C33_Witness ==
    /\ binding = "Value"
    /\ last.phase = "event"
    /\ last.arg = APPLY_BINDINGS
    /\ last.from = TwoWay
    /\ last.handled
    /\ last.drained = None
    /\ last.steps = <<"set_handled", "append_change_required">>
    /\ pending_change = None

\* C37: in every state the host forwards each lifecycle, update, layout and
\* paint call, and each event that is not one of its own commands, to the
\* wrapped widget exactly once, with the arguments it was called with, and
\* its layout returns the size the wrapped widget returned.
C37_ConformingNode ==
    (/\ last.phase \in Calls
     /\ ~(last.phase = "event"
             /\ last.arg \in {INIT_BINDINGS, APPLY_BINDINGS})) =>
        /\ Count(last.steps, "forward") = 1
        /\ last.same_args
        /\ (last.phase = "layout") <=> (last.returned = "child")

\* A layout call in TwoWay that found a divergence: forwarded once, the
\* wrapped widget's size returned, and detection run after it.
C37_Witness ==
    /\ last.phase = "layout"
    /\ last.from = TwoWay
    /\ last.moved
    /\ last.same_args
    /\ last.returned = "child"
    /\ last.steps = <<"forward", "append_change_required", "submit_command">>

\* C31 (as claimed): once a divergence of the attribute is detected and
\* queued in TwoWay, a lifecycle, update, layout or paint call in which the
\* wrapped widget does not move leaves the attribute and the queued change
\* in place, also an update whose data changed, and the event that delivers
\* the wake-up makes the data field the attribute's value.
C31_Original ==
    [][ (/\ binding = "Value"
         /\ state = TwoWay
         /\ pending_change # None
         /\ ~same(controlled.attr, data.f)
         /\ ~last'.moved) =>
            /\ (last'.phase \in Calls \ {"event"}) =>
                  /\ controlled'.attr = controlled.attr
                  /\ pending_change' # None
            /\ (last'.phase = "event" /\ last'.arg = APPLY_BINDINGS) =>
                  data'.f = controlled.attr
      ]_vars

\* C34 (as claimed): the changes the wrapped widget made to the attribute
\* in TwoWay since the last event are conflated into the one queued change:
\* the event that delivers the wake-up applies to the data once, and the data
\* field ends as the attribute's latest value.
C34_Original ==
    [][ (/\ binding \in {"Value", "Lens"}
         /\ state = TwoWay
         /\ pending_change # None
         /\ last'.phase = "event"
         /\ last'.arg = APPLY_BINDINGS) =>
            /\ Count(last'.steps, "apply_change_to_data") = 1
            /\ same(data'.f, controlled.attr)
      ]_vars

\* C35: once the host was attached (WidgetAdded put it in Init), and the tree
\* delivers the queued commands and runs the requested updates, the host
\* reaches TwoWay, whatever other calls are made in between.
C35_AttachedReachesTwoWay == (state = Init_) ~> (state = TwoWay)

\* The update requested by the INIT_BINDINGS event took the host from Init to
\* TwoWay.
C35_Witness ==
    /\ last.phase = "update"
    /\ last.from = Init_
    /\ state = TwoWay
    /\ loop.owed = "updated"
    /\ ~update_requested
    /\ CountSel(queue, INIT_BINDINGS) = 0

\* C36 (as claimed): once the application and the wrapped widget have stopped
\* changing the data and the attribute of a host in TwoWay, the wake-ups come
\* to an end with the slot empty, no APPLY_BINDINGS command queued and the
\* attribute equal to the data field.
C36_Original ==
    (loop.stopped /\ state = TwoWay) ~>
        (/\ pending_change = None
         /\ CountSel(queue, APPLY_BINDINGS) = 0
         /\ same(controlled.attr, data.f))
====
